---- MODULE Spec2Model ----
(***************************************************************************)
(* GithubDB (src/github_db.py): a single JSON document kept either in one  *)
(* file of a GitHub repository (optimistic locking on the file's sha) or   *)
(* in one local file, read and written by several Streamlit sessions.      *)
(*                                                                         *)
(* Every call of the backing medium (get_contents, update_file,            *)
(* create_file, open, json.load, json.dump) is one atomic step; sessions   *)
(* interleave between these calls.  Each call of the medium either         *)
(* behaves normally or raises one of Exceptions.  The locals of read_data  *)
(* and write_data exist while the call runs; what a call did and returned  *)
(* is recorded, for the session Watched, in the history variable h.        *)
(***************************************************************************)
EXTENDS Integers, Sequences, FiniteSets, TLC

(* ------------------------------ bounds --------------------------------- *)
\* largest max_retries a caller passes to write_data
MaxRetriesArg == 2
\* top-level calls start only while the file's version is below MaxVer
MaxVer == 2
\* the sessions (independent processes sharing the store)
Procs == {"s1", "s2"}
\* the session whose calls the history h records
Watched == "s1"

(* --------------------------- Python values ----------------------------- *)
None == [t |-> "None"]
\* {} : a dict without keys
EmptyDoc == [t |-> "dict"]
\* app.py default_data
default_doc ==
    [t |-> "dict", feeds |-> <<"https://news">>, keywords |-> <<"k1">>,
     visitors |-> 0, reports |-> {}, collected_news |-> {}]
\* documents callers pass to read_data / write_data
Docs == {EmptyDoc, default_doc}

\* Python truthiness of a dict or None: `if default_data:`
Truthy(v) == v.t = "dict" /\ DOMAIN v # {"t"}
\* `default_data or {}`
OrEmpty(v) == IF Truthy(v) THEN v ELSE EmptyDoc

\* json.dumps(new_data, indent=4, ensure_ascii=False): the complete text
json_dumps(d) == [t |-> "json", of |-> d]
\* what open(path, 'w') leaves, and what a json.dump that raised leaves
Truncated == [t |-> "partial"]
\* json.load / json.loads succeeds exactly on a complete text
Parses(c) == c.t = "json"
json_loads(c) == c.of

(* ----------------------------- exceptions ------------------------------ *)
NoException == [raised |-> FALSE, github |-> FALSE, status |-> 0]
GithubException(s) == [raised |-> TRUE, github |-> TRUE, status |-> s]
OtherException == [raised |-> TRUE, github |-> FALSE, status |-> 0]
\* failures of the medium during read_data: authentication, permission, not
\* found, and a transport or parse error that is no GithubException
ReadFailures == {GithubException(401), GithubException(403), GithubException(404),
                 OtherException}
\* failures of the medium during write_data: permission, not found, conflict,
\* and a transport or serialization error that is no GithubException
WriteFailures == {GithubException(403), GithubException(404), GithubException(409),
                  OtherException}

(* ------------------------------- state --------------------------------- *)
VARIABLES
    use_local,   \* GithubDB.use_local (fixed at construction)
    file,        \* the blob in the repository (with its sha), or the local file
    sess,        \* per session: pc and the locals of the running read_data / write_data
    h,           \* history: the last call of session Watched
    app,         \* per session: the run of app.py in progress and st.session_state
    ah           \* history of the runs of app.py: their number, and what Watched did

vars == <<use_local, file, sess, h, app, ah>>

Unset == [t |-> "unset"]
\* the call did not return: an exception left read_data or write_data
Raised == [t |-> "raised"]
\* max_retries=3 in the signature of write_data
DefaultMaxRetries == 3

NoFile == [exists |-> FALSE, content |-> Truncated, sha |-> 0]

\* a session outside read_data and write_data
Idle == [pc |-> "idle", default_data |-> None, new_data |-> EmptyDoc,
         max_retries |-> 0, attempt |-> 0, contents_sha |-> 0, nested |-> FALSE]

\* what one step of a call did: the call of the medium and its outcome, the
\* change of the file, and the values returned
NoEv == [kind |-> "none", exc |-> NoException, fault |-> FALSE, stale |-> FALSE, token |-> 0,
         changed |-> FALSE, stored |-> None, existed |-> FALSE, lost |-> FALSE,
         absent |-> FALSE, wret |-> "unset", rret |-> Unset]

NoHist == [op |-> "none", done |-> TRUE, default_data |-> None,
           max_retries |-> 0, attempt |-> 0, read_ret |-> Unset, write_ret |-> "unset",
           call |-> [kind |-> "none", exc |-> NoException, stale |-> FALSE,
                     existed |-> FALSE, lost |-> FALSE],
           gets |-> 0, updates |-> 0,
           fetch |-> [att |-> -1, sha |-> 0],
           changed |-> FALSE, absent |-> FALSE, wrote |-> None,
           again |-> None, fault |-> FALSE, raced |-> FALSE]

\* a session between two runs of app.py: only st.session_state outlives a run
NoApp == [pc |-> "idle", visited |-> FALSE, data |-> None,
          current_data |-> None]

NoAppHist == [runs |-> 0, stage |-> "none", before |-> None, date |-> "none", final |-> None,
              incs |-> 0, last_inc |-> "unset", tried |-> FALSE]

Init ==
    /\ use_local \in BOOLEAN
    /\ file = NoFile
    /\ sess = [p \in Procs |-> Idle]
    /\ h = NoHist
    /\ app = [p \in Procs |-> NoApp]
    /\ ah = NoAppHist

(* ------------------------- write_data: control ------------------------- *)
\* inner handler of write_data: `except GithubException as e: if e.status == 404`
InnerHandles(exc) == exc.github /\ exc.status = 404

\* variant: the outer handler retries after any GithubException
ShouldRetry_AnyStatus(exc, att, maxr) == exc.github /\ att < maxr - 1

\* outer handler of write_data: `if e.status == 409 and attempt < max_retries - 1`
ShouldRetry(exc, att, maxr) == exc.github /\ exc.status = 409 /\ att < maxr - 1

\* variant: the handlers `except Exception` are missing
ExceptException_Missing(exc) == FALSE

\* `except Exception as e:` catches whatever was raised
ExceptException(exc) == exc.raised

\* `except GithubException as e:`
ExceptGithubException(exc) == exc.github

\* local mode: `except Exception: return default_data or {}`
LocalReadFailure(d) == OrEmpty(d)

\* variant: read_data returns None when its bootstrap write failed
ReadAfterBootstrap_NoneOnFailure(local, ok, d) == IF ok THEN d ELSE None

\* what read_data returns once its bootstrap write_data has returned ok:
\* local mode `return default_data`; GitHub mode `return default_data` after
\* success and `return default_data or {}` after failure
ReadAfterBootstrap(local, ok, d) ==
    IF local THEN d
    ELSE IF ok THEN d ELSE OrEmpty(d)

\* write_data returns ok; a bootstrap write returns into read_data, which returns
WriteReturn(l, f, ev, local, ok) ==
    [s |-> Idle, file |-> f,
     ev |-> [ev EXCEPT !.wret = IF ok THEN "True" ELSE "False",
                       !.rret = IF l.nested
                                THEN ReadAfterBootstrap(local, ok, l.default_data)
                                ELSE Unset]]

\* exc leaves write_data.  A bootstrap write runs, in local mode, inside the
\* try of read_data, and in GitHub mode inside its handler of status 404,
\* where no handler of read_data is around it.
WriteRaise(l, f, ev, local, exc) ==
    [s |-> Idle, file |-> f,
     ev |-> [ev EXCEPT !.wret = "raised",
                       !.rret = IF ~l.nested THEN Unset
                                ELSE IF local /\ ExceptException(exc)
                                     THEN LocalReadFailure(l.default_data)
                                     ELSE Raised]]

\* local mode, write_data: `except Exception as e: ... return False`
AfterRaiseLocal(l, f, ev, exc) ==
    IF ExceptException(exc)
    THEN WriteReturn(l, f, ev, TRUE, FALSE)
    ELSE WriteRaise(l, f, ev, TRUE, exc)

\* the outer handlers of write_data, reached by exc
AfterRaise(l, f, ev, exc) ==
    IF ShouldRetry(exc, l.attempt, l.max_retries)
    THEN [s |-> [l EXCEPT !.attempt = @ + 1, !.pc = "write_get"], file |-> f, ev |-> ev]
    ELSE IF ExceptGithubException(exc) \/ ExceptException(exc)
         THEN WriteReturn(l, f, ev, FALSE, FALSE)
         ELSE WriteRaise(l, f, ev, FALSE, exc)

(* ------------------------ write_data: GitHub mode ---------------------- *)
\* the medium's answer to get_contents: x when the call fails, else by the file
GetOutcome(f, x) ==
    IF x.raised THEN x
    ELSE IF f.exists THEN NoException ELSE GithubException(404)

\* the medium's answer to update_file with token sha: accepted only on the current token
UpdateOutcome(f, x, sha) ==
    IF x.raised THEN x
    ELSE IF f.exists /\ sha = f.sha THEN NoException ELSE GithubException(409)

\* the medium's answer to create_file: a path that exists cannot be created
CreateOutcome(f, x) ==
    IF x.raised THEN x
    ELSE IF f.exists THEN GithubException(422) ELSE NoException

\* variant: a retry keeps the sha of the first get_contents of the call
UpdateSha_KeepFirst(fetched, previous) == IF previous # 0 THEN previous ELSE fetched

\* the sha write_data passes to update_file: contents.sha of this attempt's get_contents
UpdateSha(fetched, previous) == fetched

\* variant: a falsy document is replaced by the default document before it is stored
Payload_FalsyAsDefault(l) ==
    IF Truthy(l.new_data) THEN json_dumps(l.new_data) ELSE json_dumps(default_doc)

\* the document write_data serializes for update_file, create_file and json.dump
Payload(l) == json_dumps(l.new_data)

\* storing text c replaces a complete document other than c
Replaces(f, c) == f.exists /\ Parses(f.content) /\ f.content # c

\* `contents = self.repo.get_contents(self.file_path)` in write_data
DoGet(l, f, x) ==
    LET o == GetOutcome(f, x)
        ev == [NoEv EXCEPT !.kind = "get", !.exc = o, !.fault = x.raised, !.token = f.sha]
    IN  IF ~o.raised
        THEN [s |-> [l EXCEPT !.contents_sha = UpdateSha(f.sha, l.contents_sha),
                              !.pc = "write_update"],
              file |-> f, ev |-> ev]
        ELSE IF InnerHandles(o)
             THEN [s |-> [l EXCEPT !.pc = "write_create"], file |-> f, ev |-> ev]
             ELSE AfterRaise(l, f, ev, o)

\* `self.repo.update_file(contents.path, commit_message, json.dumps(...), contents.sha)`
DoUpdate(l, f, x) ==
    LET o == UpdateOutcome(f, x, l.contents_sha)
        ev == [NoEv EXCEPT !.kind = "update", !.exc = o, !.fault = x.raised,
                           !.token = l.contents_sha,
                           !.stale = (l.contents_sha # f.sha)]
    IN  IF ~o.raised
        THEN WriteReturn(l, [exists |-> TRUE, content |-> Payload(l), sha |-> f.sha + 1],
                         [ev EXCEPT !.changed = TRUE, !.stored = l.new_data,
                                    !.existed = f.exists,
                                    !.lost = Replaces(f, Payload(l))],
                         FALSE, TRUE)
        ELSE IF InnerHandles(o)
             THEN [s |-> [l EXCEPT !.pc = "write_create"], file |-> f, ev |-> ev]
             ELSE AfterRaise(l, f, ev, o)

\* `self.repo.create_file(self.file_path, commit_message, json.dumps(...))`,
\* called inside the inner handler: what it raises reaches the outer handlers only
DoCreate(l, f, x) ==
    LET o == CreateOutcome(f, x)
        ev == [NoEv EXCEPT !.kind = "create", !.exc = o, !.fault = x.raised]
    IN  IF ~o.raised
        THEN WriteReturn(l, [exists |-> TRUE, content |-> Payload(l), sha |-> f.sha + 1],
                         [ev EXCEPT !.changed = TRUE, !.stored = l.new_data,
                                    !.existed = f.exists],
                         FALSE, TRUE)
        ELSE AfterRaise(l, f, ev, o)

\* variant: the body of the loop runs once before max_retries is looked at
LoopEnters_Always(maxr) == TRUE

\* `for attempt in range(max_retries)`: the body runs only when max_retries > 0
LoopEnters(maxr) == 0 < maxr

(* ------------------------ write_data: local mode ----------------------- *)
\* `open(self.local_file_path, 'w', encoding='utf-8')`: truncates the file
DoOpen(l, f, x) ==
    LET ev == [NoEv EXCEPT !.kind = "open", !.exc = x, !.fault = x.raised] IN
    IF ~x.raised
    THEN [s |-> [l EXCEPT !.pc = "write_dump"],
          file |-> [f EXCEPT !.exists = TRUE, !.content = Truncated],
          ev |-> [ev EXCEPT !.changed = TRUE, !.stored = None, !.existed = f.exists,
                            !.lost = Replaces(f, Payload(l))]]
    ELSE AfterRaiseLocal(l, f, ev, x)

\* `json.dump(new_data, f, indent=4, ensure_ascii=False)` and the close of the file.
\* The text goes to the start of the file the session opened; when another
\* session has written the file since, the bytes of both may mix (garbled).
DoDump(l, f, x, garbled) ==
    LET mixed == f.content # Truncated /\ garbled
        ev == [NoEv EXCEPT !.kind = "dump", !.exc = x, !.fault = x.raised,
                           !.changed = TRUE, !.existed = TRUE]
    IN  IF ~x.raised
        THEN WriteReturn(l, [f EXCEPT !.content = IF mixed THEN Truncated ELSE Payload(l)],
                         [ev EXCEPT !.stored = IF mixed THEN None ELSE l.new_data],
                         TRUE, TRUE)
        ELSE AfterRaiseLocal(l, [f EXCEPT !.content = IF mixed THEN Truncated ELSE @],
                             [ev EXCEPT !.changed = mixed], x)

(* ------------------------------ read_data ------------------------------ *)
\* read_data calls write_data(default_data, "Initialize ...") with the default max_retries
Bootstrap(l, first) ==
    [l EXCEPT !.pc = first, !.nested = TRUE, !.new_data = l.default_data,
              !.max_retries = DefaultMaxRetries, !.attempt = 0]

\* read_data returns v
ReadReturn(f, ev, v) == [s |-> Idle, file |-> f, ev |-> [ev EXCEPT !.rret = v]]

\* variant: status 403 is taken for an absent file as well
IsNotFound_Or403(exc) == exc.github /\ exc.status \in {403, 404}

\* GitHub mode: the status on which read_data takes the file to be absent
IsNotFound(exc) == exc.github /\ exc.status = 404

\* GitHub mode: read_data on status 404 without a usable default: `return default_data or {}`
ReadNotFound(d) == OrEmpty(d)

\* GitHub mode: what read_data returns when get_contents or the parse raised a
\* GithubException with a status other than 404, or any other exception
ReadFailure(exc, d) == None

\* GitHub mode: `contents = get_contents(...)`, `json.loads(contents.decoded_content.decode())`
DoRead(l, f, x) ==
    LET o == GetOutcome(f, x)
        ev == [NoEv EXCEPT !.kind = "rget", !.exc = o, !.fault = x.raised,
                           !.existed = f.exists,
                           !.absent = (~f.exists /\ ~x.raised)]
    IN  IF ~o.raised
        THEN ReadReturn(f, ev, json_loads(f.content))
        ELSE IF IsNotFound(o)
             THEN IF Truthy(l.default_data)
                  THEN [s |-> Bootstrap(l, "write_get"), file |-> f, ev |-> ev]
                  ELSE ReadReturn(f, ev, ReadNotFound(l.default_data))
             ELSE IF ExceptGithubException(o) \/ ExceptException(o)
                  THEN ReadReturn(f, ev, ReadFailure(o, l.default_data))
                  ELSE ReadReturn(f, ev, Raised)

\* local mode: os.path.exists, open, json.load
DoReadLocal(l, f, x) ==
    IF f.exists
    THEN LET o == IF x.raised \/ Parses(f.content) THEN x ELSE OtherException
             ev == [NoEv EXCEPT !.kind = "load", !.exc = o, !.fault = x.raised,
                                !.existed = TRUE]
         IN  IF ~o.raised
             THEN ReadReturn(f, ev, json_loads(f.content))
             ELSE IF ExceptException(o)
                  THEN ReadReturn(f, ev, LocalReadFailure(l.default_data))
                  ELSE ReadReturn(f, ev, Raised)
    ELSE LET ev == [NoEv EXCEPT !.kind = "exists", !.absent = TRUE]
         IN  IF Truthy(l.default_data)
             THEN [s |-> Bootstrap(l, "write_open"), file |-> f, ev |-> ev]
             ELSE ReadReturn(f, ev, EmptyDoc)

(* ------------------------------ history -------------------------------- *)
\* h after the step r of session Watched, whose locals at the step were l
Observe(h0, l, r) ==
    LET ev == r.ev
        returned == r.s.pc = "idle"
    IN  [h0 EXCEPT
            !.done = returned,
            !.default_data = l.default_data,
            !.max_retries = l.max_retries,
            !.attempt = l.attempt,
            !.read_ret = IF ev.rret # Unset THEN ev.rret ELSE @,
            !.write_ret = IF ev.wret # "unset" THEN ev.wret ELSE @,
            !.call = [kind |-> ev.kind, exc |-> ev.exc, stale |-> ev.stale,
                      existed |-> ev.existed, lost |-> ev.lost],
            !.gets = IF ev.kind = "get" THEN @ + 1 ELSE @,
            !.updates = IF ev.kind = "update" THEN @ + 1 ELSE @,
            !.fetch = IF returned THEN NoHist.fetch
                      ELSE IF ev.kind = "get" /\ ~ev.exc.raised
                           THEN [att |-> l.attempt, sha |-> ev.token]
                           ELSE @,
            !.changed = @ \/ ev.changed,
            !.absent = @ \/ ev.absent,
            !.wrote = IF ev.changed THEN ev.stored ELSE @,
            !.fault = @ \/ ev.fault]

\* the step r of session p, whose locals at the step were l
Apply(p, h0, l, r) ==
    /\ sess' = [sess EXCEPT ![p] = r.s]
    /\ file' = r.file
    /\ h' = IF p = Watched THEN Observe(h0, l, r)
            ELSE IF r.ev.changed
                 THEN [h EXCEPT !.wrote = None, !.again = None, !.raced = @ \/ ~h.done]
            ELSE h
    /\ UNCHANGED <<use_local, app, ah>>

\* history of a call that starts
StartHist(o) == [NoHist EXCEPT !.op = o, !.done = FALSE, !.wrote = h.wrote]

(* --------------------------- calls of the store ------------------------- *)
ReadOutcomes == {NoException} \cup ReadFailures
WriteOutcomes == {NoException} \cup WriteFailures
\* the local file system: success or an OSError / ValueError / TypeError
LocalOutcomes == {NoException, OtherException}

\* a caller may start a call while the version counter is below its bound
MayCall(p) == sess[p].pc = "idle" /\ file.sha < MaxVer

\* whose calls meet failures of the medium: those of Watched, and every call on
\* the local file system.  A GitHub call of another session that fails leaves
\* the file as it was, which Watched cannot tell from a call not yet made.
Injects(p, x) == x.raised => p = Watched \/ use_local

\* db.read_data(default_data=d), up to the return or to the bootstrap write
CallRead(p, d, x) ==
    LET l == [Idle EXCEPT !.default_data = d] IN
    /\ MayCall(p)
    /\ Injects(p, x)
    /\ use_local => x \in LocalOutcomes
    /\ Apply(p, StartHist("read"), l,
             IF use_local THEN DoReadLocal(l, file, x) ELSE DoRead(l, file, x))

\* db.write_data(d, msg, max_retries=m), up to its first call of the medium
CallWrite(p, d, m, x) ==
    LET l == [Idle EXCEPT !.new_data = d, !.max_retries = m] IN
    /\ MayCall(p)
    /\ Injects(p, x)
    /\ use_local => x \in LocalOutcomes
    /\ ~use_local /\ ~LoopEnters(m) => x = NoException
    /\ Apply(p, [StartHist("write") EXCEPT !.again = IF h.wrote = d THEN d ELSE None], l,
             IF use_local THEN DoOpen(l, file, x)
             ELSE IF LoopEnters(m) THEN DoGet(l, file, x)
             ELSE WriteReturn(l, file, NoEv, FALSE, FALSE))

\* write_data: get_contents of a bootstrap write or of a retry
Write_get(p, x) ==
    /\ sess[p].pc = "write_get"
    /\ Injects(p, x)
    /\ Apply(p, h, sess[p], DoGet(sess[p], file, x))

Write_update(p, x) ==
    /\ sess[p].pc = "write_update"
    /\ Injects(p, x)
    /\ Apply(p, h, sess[p], DoUpdate(sess[p], file, x))

Write_create(p, x) ==
    /\ sess[p].pc = "write_create"
    /\ Injects(p, x)
    /\ Apply(p, h, sess[p], DoCreate(sess[p], file, x))

\* write_data, local mode: open of a bootstrap write
Write_open(p, x) ==
    /\ sess[p].pc = "write_open"
    /\ Injects(p, x)
    /\ Apply(p, h, sess[p], DoOpen(sess[p], file, x))

Write_dump(p, x, garbled) ==
    /\ sess[p].pc = "write_dump"
    /\ Injects(p, x)
    /\ Apply(p, h, sess[p], DoDump(sess[p], file, x, garbled))

Next ==
    \/ \E p \in Procs, d \in Docs \cup {None}, x \in ReadOutcomes : CallRead(p, d, x)
    \/ \E p \in Procs, d \in Docs, m \in 0..MaxRetriesArg, x \in WriteOutcomes :
          CallWrite(p, d, m, x)
    \/ \E p \in Procs, x \in WriteOutcomes : Write_get(p, x)
    \/ \E p \in Procs, x \in WriteOutcomes : Write_update(p, x)
    \/ \E p \in Procs, x \in WriteOutcomes : Write_create(p, x)
    \/ \E p \in Procs, x \in LocalOutcomes : Write_open(p, x)
    \/ \E p \in Procs, x \in LocalOutcomes, g \in BOOLEAN : Write_dump(p, x, g)

Spec == Init /\ [][Next]_vars

(* ============================ properties =============================== *)
W == sess[Watched]
Conflict == GithubException(409)
\* the last write_data of session Watched has returned (also a bootstrap write)
WriteReturned == h.done /\ h.write_ret # "unset"

\* C1: every update_file of write_data carries the sha its get_contents
\* fetched in the same attempt; an update is accepted only when that sha is the
\* file's sha at that moment; an update with a stale sha is rejected, and the
\* call issues a new get_contents before any further update_file.
C1_NoStaleOverwrite ==
    /\ W.pc = "write_update" =>
          /\ h.fetch.att = W.attempt
          /\ W.contents_sha = h.fetch.sha
    /\ h.call.kind = "update" /\ ~h.call.exc.raised =>
          /\ h.call.existed
          /\ ~h.call.stale
    /\ h.call.kind = "update" /\ h.call.stale =>
          /\ h.call.exc.raised
          /\ W.pc # "write_update"

\* C1 witness: another session changed the file after the get_contents of
\* Watched, so the update of Watched carried a stale sha and was rejected as
\* conflict, and the call is about to fetch again.
C1_Witness ==
    /\ h.call.kind = "update" /\ h.call.stale /\ h.call.exc = Conflict
    /\ W.pc = "write_get" /\ W.attempt = 1

\* C2: with max_retries >= 1 a write_data issues at most max_retries
\* update_file calls, each after a get_contents of its own attempt; it starts
\* a further attempt only after a conflict while attempt < max_retries - 1,
\* and a call whose last attempt ended in a conflict returns False.
C2_BoundedRetry ==
    /\ h.updates <= h.max_retries
    /\ h.updates <= h.gets
    /\ W.pc \in {"write_get", "write_update", "write_create"} => W.attempt < W.max_retries
    /\ W.pc \in {"write_update", "write_create"} => h.gets = W.attempt + 1
    /\ W.pc = "write_get" /\ W.attempt > 0 =>
          /\ h.call.exc = Conflict
          /\ h.gets = W.attempt
    /\ WriteReturned /\ h.call.exc = Conflict =>
          /\ h.write_ret = "False"
          /\ h.attempt = h.max_retries - 1

\* C2 witness: a write_data with max_retries = 2 returned False after two
\* update_file calls, the second of which ended in a conflict.
C2_Witness ==
    /\ WriteReturned /\ h.op = "write" /\ h.write_ret = "False"
    /\ h.max_retries = 2 /\ h.updates = 2 /\ h.gets = 2
    /\ h.call.kind = "update" /\ h.call.exc = Conflict

\* C3: round trip on either backend: when the last write of a session stored
\* D and returned True, no other session changed the file since, and the
\* following read_data met no error of the medium, read_data returns D.
C3_RoundTrip ==
    h.done /\ h.op = "read" /\ ~h.absent /\ ~h.call.exc.raised /\ h.wrote # None
        => h.read_ret = h.wrote

\* C3 witness: the empty document was written and read back from the local file.
C3_Witness ==
    /\ use_local
    /\ h.done /\ h.op = "read" /\ ~h.absent /\ ~h.call.exc.raised
    /\ h.wrote = EmptyDoc /\ h.read_ret = EmptyDoc

\* C3 witness on the repository: the default document was written and read back.
C3_WitnessRemote ==
    /\ ~use_local
    /\ h.done /\ h.op = "read" /\ ~h.absent /\ ~h.call.exc.raised
    /\ h.wrote = default_doc /\ h.read_ret = default_doc

\* the read_data of session Watched has returned after it found no file
ReadFoundNoFile == h.done /\ h.op = "read" /\ h.absent
\* no session other than Watched has changed the file since Watched's last
\* change of it, or no session has created the file at all
NoOtherChange == h.wrote # None \/ ~file.exists

C4_WitnessFailed ==
    /\ ReadFoundNoFile /\ h.default_data = default_doc
    /\ h.write_ret = "False" /\ h.read_ret = default_doc /\ ~file.exists

\* C5 as stated: the write that read_data(default) issues only creates the
\* file; it never replaces the document of a file that exists by another one.
C5_ReadOnlyInitializes ==
    h.op = "read" /\ h.call.kind \in {"update", "create", "open"} => ~h.call.lost

\* C6 as stated: a write_data that returned False has not changed the file.
C6_FailedWriteChangesNothing ==
    WriteReturned /\ h.write_ret = "False" => ~h.changed

\* C7 as stated: a failure other than a conflict, raised by get_contents
\* (other than not-found) or by update_file during write_data, makes
\* write_data return False without a further call of the medium.
C7_NonConflictAborts ==
    /\ h.call.kind \in {"get", "update"}
    /\ h.call.exc.raised /\ h.call.exc # Conflict
    /\ ~(h.call.kind = "get" /\ h.call.exc = GithubException(404))
    => WriteReturned /\ h.write_ret = "False"

\* C8 as stated: whatever a create_file raised, write_data returns False
\* without a further call of the medium.
C8_Original ==
    h.call.kind = "create" /\ h.call.exc.raised
        => WriteReturned /\ h.write_ret = "False"

\* C8 amended: after a failed create_file write_data returns False without a
\* further call of the medium, unless create_file failed with a conflict (409)
\* while attempt < max_retries - 1: then write_data starts its next attempt
\* with a get_contents.
C8_CreateFailure ==
    h.call.kind = "create" /\ h.call.exc.raised
        => IF h.call.exc = Conflict /\ h.attempt < h.max_retries - 1
           THEN ~h.done /\ W.pc = "write_get" /\ W.attempt = h.attempt + 1
           ELSE WriteReturned /\ h.write_ret = "False"

\* C8 witness: create_file found the file created by another session meanwhile
\* (status 422) with attempts left, and write_data returned False.
C8_Witness ==
    /\ h.call.kind = "create" /\ h.call.exc = GithubException(422)
    /\ h.attempt < h.max_retries - 1
    /\ WriteReturned /\ h.write_ret = "False"

\* C8 witness of the exception: create_file failed with a conflict and the call retries.
C8_WitnessRetry ==
    /\ h.call.kind = "create" /\ h.call.exc = Conflict
    /\ ~h.done /\ W.pc = "write_get"

\* C9: a 401 or 403 from the get_contents of read_data makes read_data return
\* None, with or without a default, without any create or update and without
\* a call of write_data.
C9_AuthErrorIsolated ==
    /\ h.op = "read" /\ h.call.kind = "rget"
    /\ h.call.exc \in {GithubException(401), GithubException(403)}
    => /\ h.done
       /\ h.read_ret = None
       /\ h.write_ret = "unset" /\ h.gets = 0 /\ h.updates = 0 /\ ~h.changed

\* C9 witness: read_data with the default document met a 403 and returned None.
C9_Witness ==
    /\ h.op = "read" /\ h.call.kind = "rget" /\ h.call.exc = GithubException(403)
    /\ h.default_data = default_doc
    /\ h.done /\ h.read_ret = None

\* C10 as stated: when the file exists and fetching or parsing it fails,
\* read_data returns None on both backends.
C10_FailedReadIsNone ==
    /\ h.done /\ h.op = "read" /\ h.call.kind \in {"rget", "load"}
    /\ h.call.existed /\ h.call.exc.raised /\ h.call.exc # GithubException(404)
    => h.read_ret = None

\* C11 as stated: read_data() without a default, on a store without a file,
\* returns {} in local mode and None in GitHub mode, and creates no file.
C11_ReadNoDefault ==
    ReadFoundNoFile /\ h.default_data = None
        => /\ h.read_ret = IF use_local THEN EmptyDoc ELSE None
           /\ h.write_ret = "unset" /\ ~h.changed

\* C12: read_data and write_data never let an exception out: whatever the
\* medium raised, at whichever step and also inside a bootstrap write, a
\* write_data that has returned gave True or False and a read_data that has
\* returned gave a document or None.
C12_NeverRaises ==
    /\ h.write_ret \in {"unset", "True", "False"}
    /\ h.read_ret \in {Unset, None} \cup Docs
    /\ h.done /\ h.op = "write" => h.write_ret \in {"True", "False"}
    /\ h.done /\ h.op = "read" => h.read_ret \in {None} \cup Docs

\* C12 witness: the create_file of a bootstrap write raised an exception that
\* is no GithubException; write_data returned False and read_data the default.
C12_Witness ==
    /\ h.done /\ h.op = "read" /\ h.call.kind = "create"
    /\ h.call.exc = OtherException
    /\ h.write_ret = "False" /\ h.read_ret = default_doc

\* C13: in GitHub mode a write_data returns True only through an accepted
\* update_file or create_file, and from that moment until another change the
\* file holds exactly the serialization of the caller's document: nothing of
\* the document stored before, whoever stored it, is kept.
C13_WholeReplacement ==
    /\ ~use_local /\ WriteReturned /\ h.write_ret = "True" =>
          /\ h.call.kind \in {"update", "create"}
          /\ ~h.call.exc.raised
          /\ h.changed
    /\ h.call.kind \in {"update", "create"} /\ ~h.call.exc.raised /\ h.wrote # None =>
          /\ file.exists
          /\ file.content = json_dumps(h.wrote)
          /\ json_loads(file.content) = h.wrote

\* C13 witness: a write_data({}) replaced the default document, which the file
\* held, by {} and returned True.
C13_Witness ==
    /\ ~use_local /\ WriteReturned /\ h.op = "write" /\ h.write_ret = "True"
    /\ h.call.kind = "update" /\ h.call.lost
    /\ h.wrote = EmptyDoc /\ file.content = json_dumps(EmptyDoc)

\* C15: a write_data(D) that follows a write_data(D) of the same session which
\* stored D, with no change of the file by another session since and no
\* failure of the medium, returns True and the file holds D (max_retries >= 1
\* in GitHub mode), whether the first of the two created or updated the file.
C15_Idempotent ==
    /\ h.done /\ h.op = "write" /\ h.again # None /\ ~h.fault
    /\ use_local \/ LoopEnters(h.max_retries)
    => /\ h.write_ret = "True"
       /\ file.exists
       /\ file.content = json_dumps(h.again)

\* C15 witness: the first write_data(D) created the file and the second
\* updated it, in GitHub mode.
C15_Witness ==
    /\ ~use_local /\ h.done /\ h.op = "write" /\ h.again = default_doc /\ ~h.fault
    /\ h.call.kind = "update" /\ file.sha = 2
    /\ h.write_ret = "True" /\ file.content = json_dumps(default_doc)

\* C15 witness in local mode: {} written twice.
C15_WitnessLocal ==
    /\ use_local /\ h.done /\ h.op = "write" /\ h.again = EmptyDoc /\ ~h.fault
    /\ h.write_ret = "True" /\ file.content = json_dumps(EmptyDoc)

\* C17 as stated: whenever the file exists it holds the complete
\* serialization of one document given to a write_data call; a reader never
\* meets an empty or partly written file.
C17_AlwaysComplete ==
    file.exists => Parses(file.content) /\ json_loads(file.content) \in Docs

\* C21: in GitHub mode a write_data with max_retries <= 0 calls the medium
\* not at all and returns False, whatever the state of the file; with
\* max_retries >= 1, no change of the file by another session during the call
\* and no failure of the medium, it returns True on its first attempt.
C21_RetryCount ==
    /\ h.op = "write" /\ ~use_local /\ h.max_retries <= 0 =>
          /\ h.done /\ h.write_ret = "False"
          /\ h.call.kind = "none" /\ h.gets = 0 /\ h.updates = 0
          /\ ~h.changed
    /\ h.done /\ h.op = "write" /\ ~use_local /\ h.max_retries >= 1
       /\ ~h.fault /\ ~h.raced =>
          /\ h.write_ret = "True"
          /\ h.attempt = 0 /\ h.gets = 1
          /\ h.call.kind \in {"update", "create"}

\* C21 witness: write_data with max_retries = 0 returned False without a call
\* of the medium, on a file that exists.
C21_Witness ==
    /\ ~use_local /\ h.done /\ h.op = "write" /\ h.max_retries = 0
    /\ h.write_ret = "False" /\ h.call.kind = "none" /\ file.exists

\* C21 witness: write_data with max_retries = 1 created the absent file at once.
C21_WitnessFirstAttempt ==
    /\ ~use_local /\ h.done /\ h.op = "write" /\ h.max_retries = 1
    /\ ~h.fault /\ ~h.raced /\ h.call.kind = "create" /\ h.write_ret = "True"

(* =============================== app.py ================================ *)
(* One run of the script app.py per user interaction.  Inside a run the    *)
(* calls db.read_data / db.write_data are one step each (Spec covers what  *)
(* happens inside them); the runs of different sessions interleave between *)
(* these calls.                                                            *)

\* runs of app.py, of all sessions together
MaxReruns == 3

\* what the user types into st.text_input("RSS URL 추가")
FeedInputs == {"https://news"}
\* what the user types into st.text_input("키워드 추가")
KeywordInputs == {"k1"}
\* datetime.now().strftime("%Y-%m-%d")
Dates == {"d1", "d2"}
\* f"{today}_collected_at"
CollectedAtKey(d) == IF d = "d1" THEN "d1_collected_at" ELSE "d2_collected_at"
\* what fetch_news returns: no article, or some
FetchedArticles == {<<>>, <<"a1">>}
\* str(datetime.now())
Now == <<"now">>
\* one user interaction: the button pressed, the text typed or the item whose
\* delete button was pressed, the date of the run, and what fetch_news returns
NoClick == [b |-> "none", a |-> "", t |-> "d1", arts |-> <<>>]
Clicks ==
    {NoClick}
    \cup {[NoClick EXCEPT !.b = b, !.a = a] :
             b \in {"add_feed", "remove_feed"}, a \in FeedInputs}
    \cup {[NoClick EXCEPT !.b = b, !.a = a] :
             b \in {"add_keyword", "remove_keyword"}, a \in KeywordInputs}
    \cup {[NoClick EXCEPT !.b = "collect", !.t = t, !.arts = arts] :
             t \in Dates, arts \in FetchedArticles}
    \cup {[NoClick EXCEPT !.b = "report", !.t = t] : t \in Dates}

\* a dict is the set of its <<key, value>> items
Keys(dct) == {e[1] : e \in dct}
DictGet(dct, k) == (CHOOSE e \in dct : e[1] = k)[2]
\* dct[k] = v
DictSet(dct, k, v) == {e \in dct : e[1] # k} \cup {<<k, v>>}
\* `x in lst`
Range(lst) == {lst[i] : i \in 1..Len(lst)}
\* lst.remove(v): drops the first occurrence of v
ListRemove(lst, v) ==
    LET i == CHOOSE k \in 1..Len(lst) : lst[k] = v /\ \A j \in 1..(k - 1) : lst[j] # v
    IN  SubSeq(lst, 1, i - 1) \o SubSeq(lst, i + 1, Len(lst))

\* the medium during one call of the store: in order, or failing every call
AppOutcomes == {NoException, OtherException}

\* whose calls of the store meet a failing medium: those of Watched.  A call of
\* another session that fails throughout leaves the file as it was.
AppInjects(p, x) == x.raised => p = Watched

\* the next call of the medium inside a running read_data / write_data
StoreStep(l, f, x) ==
    CASE l.pc = "write_get" -> DoGet(l, f, x)
      [] l.pc = "write_update" -> DoUpdate(l, f, x)
      [] l.pc = "write_create" -> DoCreate(l, f, x)
      [] l.pc = "write_open" -> DoOpen(l, f, x)
      [] l.pc = "write_dump" -> DoDump(l, f, x, FALSE)

\* a call of the store from its first step r to its return
RECURSIVE RunCall(_, _)
RunCall(r, x) == IF r.s.pc = "idle" THEN r ELSE RunCall(StoreStep(r.s, r.file, x), x)

\* db.read_data(default_data=d) on file f: the value returned and the file left
read_data(d, f, x) ==
    LET l == [Idle EXCEPT !.default_data = d]
        r == RunCall(IF use_local THEN DoReadLocal(l, f, x) ELSE DoRead(l, f, x), x)
    IN  [ret |-> r.ev.rret, file |-> r.file]

\* db.write_data(d, msg) on file f: the value returned and the file left
write_data(d, f, x) ==
    LET l == [Idle EXCEPT !.new_data = d, !.max_retries = DefaultMaxRetries]
        r == RunCall(IF use_local THEN DoOpen(l, f, x) ELSE DoGet(l, f, x), x)
    IN  [ok |-> r.ev.wret = "True", file |-> r.file]

\* the condition under which the handler of button b reads the store, on the
\* `data` of this run
Handles(b, a, t, arts, data) ==
    CASE b = "add_feed" -> a \in FeedInputs /\ a \notin Range(data.feeds)
      [] b = "remove_feed" -> a \in Range(data.feeds)
      [] b = "add_keyword" -> a \in KeywordInputs /\ a \notin Range(data.keywords)
      [] b = "remove_keyword" -> a \in Range(data.keywords)
      [] b = "collect" -> arts # <<>>
      [] b = "report" -> t \in Keys(data.collected_news) \cap Dates
      [] OTHER -> FALSE

\* variant: collect news starts collected_news afresh
CollectEdit_FreshDict(cur, t, arts) ==
    [cur EXCEPT !.collected_news = {<<t, arts>>, <<CollectedAtKey(t), Now>>}]

\* current_data['collected_news'][today] = articles and its "_collected_at" entry
CollectEdit(cur, t, arts) ==
    [cur EXCEPT !.collected_news = DictSet(DictSet(@, t, arts), CollectedAtKey(t), Now)]

\* the document the handler of button b writes, made from the document cur it
\* has just read; None when it writes nothing
Edit(b, a, t, arts, data, cur) ==
    IF ~Truthy(cur) THEN None
    ELSE CASE b = "add_feed" -> [cur EXCEPT !.feeds = Append(@, a)]
           [] b = "remove_feed" ->
                 IF a \in Range(cur.feeds)
                 THEN [cur EXCEPT !.feeds = ListRemove(@, a)] ELSE None
           [] b = "add_keyword" -> [cur EXCEPT !.keywords = Append(@, a)]
           [] b = "remove_keyword" ->
                 IF a \in Range(cur.keywords)
                 THEN [cur EXCEPT !.keywords = ListRemove(@, a)] ELSE None
           [] b = "collect" -> CollectEdit(cur, t, arts)
           [] b = "report" ->
                 [cur EXCEPT !.reports = DictSet(@, t, DictGet(data.collected_news, t))]

\* variant: the flag is set whether or not the write succeeded
VisitedAfter_Always(ok) == TRUE

\* st.session_state['visited'] = True, reached only `if db.write_data(...)`
VisitedAfter(ok) == ok

\* the end of a run: the script's variables are gone, st.session_state stays
EndRun(a) == [a EXCEPT !.pc = "idle", !.data = None, !.current_data = None]

\* history: a write of a session changed the file; wr is TRUE for the write
\* of the collect handler that ah follows
AfterWrite(hist, changed, wr) ==
    IF wr /\ hist.stage = "read"
    THEN IF changed THEN [hist EXCEPT !.stage = "written"]
         ELSE [hist EXCEPT !.stage = "none", !.before = None, !.date = "none"]
    ELSE IF changed
         THEN [hist EXCEPT !.stage = "none", !.before = None, !.date = "none",
                           !.final = None]
         ELSE hist

\* `data = db.read_data(default_data=default_data)`, `if not data: st.stop()`
Rerun(p, x) ==
    LET r == read_data(default_doc, file, x)
        a == [app[p] EXCEPT !.data = r.ret]
        h1 == [AfterWrite(ah, r.file # file, FALSE) EXCEPT !.runs = @ + 1]
    IN  /\ app[p].pc = "idle" /\ ah.runs < MaxReruns
        /\ AppInjects(p, x)
        /\ file' = r.file
        /\ app' = [app EXCEPT ![p] =
                      IF ~Truthy(r.ret) THEN EndRun(a)
                      ELSE [a EXCEPT !.pc = IF a.visited THEN "button" ELSE "increment"]]
        /\ ah' = IF p # Watched THEN h1
                 ELSE IF h1.stage = "written" /\ ~x.raised /\ Truthy(r.ret)
                      THEN [h1 EXCEPT !.stage = "final", !.final = r.ret, !.tried = FALSE]
                      ELSE [h1 EXCEPT !.tried = FALSE]
        /\ UNCHANGED <<use_local, sess, h>>

\* `if 'visited' not in st.session_state: current_data = db.read_data()`
Increment_read(p, x) ==
    LET r == read_data(None, file, x) IN
    /\ app[p].pc = "increment"
    /\ AppInjects(p, x)
    /\ file' = r.file
    /\ app' = [app EXCEPT ![p] =
                  IF Truthy(r.ret)
                  THEN [@ EXCEPT !.pc = "increment_write",
                                 !.current_data = [r.ret EXCEPT !.visitors = @ + 1]]
                  ELSE [@ EXCEPT !.pc = "button"]]
    /\ ah' = IF p = Watched THEN [ah EXCEPT !.tried = TRUE] ELSE ah
    /\ UNCHANGED <<use_local, sess, h>>

\* `if db.write_data(current_data, "Increment visitor count"):`
Increment_write(p, x) ==
    LET r == write_data(app[p].current_data, file, x)
        h1 == AfterWrite(ah, r.file # file, FALSE)
    IN  /\ app[p].pc = "increment_write"
        /\ AppInjects(p, x)
        /\ file' = r.file
        /\ app' = [app EXCEPT ![p] =
                      [@ EXCEPT !.pc = "button",
                                !.data = IF r.ok THEN app[p].current_data ELSE @,
                                !.visited = VisitedAfter(r.ok),
                                !.current_data = None]]
        /\ ah' = IF p = Watched
                 THEN [h1 EXCEPT !.incs = IF r.ok THEN @ + 1 ELSE @,
                                 !.last_inc = IF r.ok THEN "True" ELSE "False"]
                 ELSE h1
        /\ UNCHANGED <<use_local, sess, h>>

\* the handler of the button pressed, up to its db.write_data
Button_read(p, c, x) ==
    LET b == c.b
        a == c.a
        t == c.t
        arts == c.arts
        data == app[p].data
        r == read_data(None, file, x)
        doc == Edit(b, a, t, arts, data, r.ret)
    IN  /\ app[p].pc = "button"
        /\ AppInjects(p, x)
        /\ IF Handles(b, a, t, arts, data)
           THEN /\ file' = r.file
                /\ app' = [app EXCEPT ![p] =
                              IF doc # None
                              THEN [@ EXCEPT !.pc = "button_write", !.current_data = doc]
                              ELSE EndRun(@)]
                /\ ah' = IF p = Watched /\ b = "collect" /\ doc # None /\ ~x.raised
                         THEN [ah EXCEPT !.stage = "read", !.before = r.ret, !.date = t,
                                         !.final = None]
                         ELSE IF p = Watched
                              THEN [ah EXCEPT !.stage = "none", !.before = None,
                                              !.date = "none", !.final = None]
                              ELSE ah
           ELSE /\ x = NoException
                /\ file' = file
                /\ app' = [app EXCEPT ![p] = EndRun(@)]
                /\ ah' = ah
        /\ UNCHANGED <<use_local, sess, h>>

\* `if db.write_data(current_data, ...): st.rerun()` of the handler
Button_write(p, x) ==
    LET r == write_data(app[p].current_data, file, x) IN
    /\ app[p].pc = "button_write"
    /\ AppInjects(p, x)
    /\ file' = r.file
    /\ app' = [app EXCEPT ![p] = EndRun(@)]
    /\ ah' = AfterWrite(ah, r.file # file, p = Watched)
    /\ UNCHANGED <<use_local, sess, h>>

AppNext ==
    \/ \E p \in Procs, x \in AppOutcomes : Rerun(p, x)
    \/ \E p \in Procs, x \in AppOutcomes : Increment_read(p, x)
    \/ \E p \in Procs, x \in AppOutcomes : Increment_write(p, x)
    \/ \E p \in Procs, c \in Clicks, x \in AppOutcomes : Button_read(p, c, x)
    \/ \E p \in Procs, x \in AppOutcomes : Button_write(p, x)

AppSpec == Init /\ [][AppNext]_vars

(* ======================= properties of app.py ========================== *)
AW == app[Watched]
\* the document in the store, None when there is no complete one
StoredDoc == IF file.exists /\ Parses(file.content) THEN json_loads(file.content) ELSE None

\* C14 as stated: no step lowers the stored visitors counter.
C14_VisitorsNeverDecrease ==
    [][Truthy(StoredDoc) /\ Truthy(StoredDoc') =>
          StoredDoc'.visitors >= StoredDoc.visitors]_vars

\* C18 as stated: no URL occurs twice in the stored feeds.
C18_NoDuplicateFeeds ==
    Truthy(StoredDoc) =>
        \A i, j \in 1..Len(StoredDoc.feeds) :
            StoredDoc.feeds[i] = StoredDoc.feeds[j] => i = j

\* C20 as stated: every date with a stored report has stored collected news.
C20_ReportsHaveNews ==
    Truthy(StoredDoc) => Keys(StoredDoc.reports) \subseteq Keys(StoredDoc.collected_news)

\* everything of document b other than collected_news[d] and its
\* "_collected_at" entry is the same in document f, which has both entries
Frame(b, f, d) ==
    LET own == {d, CollectedAtKey(d)} IN
    /\ f.feeds = b.feeds /\ f.keywords = b.keywords
    /\ f.visitors = b.visitors /\ f.reports = b.reports
    /\ {e \in f.collected_news : e[1] \notin own} = {e \in b.collected_news : e[1] \notin own}
    /\ own \subseteq Keys(f.collected_news)

\* C16: when the collect handler of a session read document B, its write for
\* date d was stored, no other write happened since the handler's read, and
\* the session's next read_data succeeds, that read returns B with only
\* collected_news[d] and its "_collected_at" entry set.
C16_CollectFrame ==
    ah.stage = "final" => Frame(ah.before, ah.final, ah.date)

\* C16 witness: news for d2 was added to a document that held news for d1.
C16_Witness ==
    /\ ah.stage = "final" /\ ah.date = "d2"
    /\ "d1" \in Keys(ah.before.collected_news)
    /\ "d2" \notin Keys(ah.before.collected_news)
    /\ {"d1", "d2"} \subseteq Keys(ah.final.collected_news)

\* C19: a session's increment write succeeds at most once; 'visited' is set
\* exactly when it has succeeded; with the flag set a run issues no increment;
\* without it, a run that gets to the buttons has tried the increment first.
C19_IncrementOnce ==
    /\ ah.incs <= 1
    /\ AW.visited <=> ah.incs = 1
    /\ ah.last_inc = "False" => ~AW.visited
    /\ AW.visited => AW.pc \notin {"increment", "increment_write"}
    /\ ~AW.visited /\ AW.pc \in {"button", "button_write"} => ah.tried

\* C19 witness: after a failed increment write a later run is about to write
\* the increment again.
C19_Witness ==
    /\ ah.last_inc = "False" /\ ~AW.visited /\ AW.pc = "increment_write"

\* C19 witness: a run of a session that has the flag skipped the increment.
C19_WitnessVisited ==
    /\ AW.visited /\ ah.incs = 1 /\ AW.pc = "button" /\ ~ah.tried

====
